---- MODULE Spec2Model ----
(***************************************************************************)
(* Model of lib/resolver.js (vmapi-resolver): a mooremachine FSM that      *)
(* polls VMAPI for backends and emits 'added' / 'removed' events.          *)
(* The write-only debugging fields vmr_lastBackends, vmr_lastAdded and     *)
(* vmr_lastRemoved are left out: nothing reads them.                       *)
(*                                                                         *)
(* Every action is one turn of the node event loop: a public call          *)
(* (start, stop), one firing of a setInterval callback, the completion     *)
(* callback of one getBackends() call, or the setImmediate callback of     *)
(* state_stopping.  mooremachine runs a state's entry function             *)
(* synchronously inside gotoState(), so the entry function of the target   *)
(* state is part of the action that requests the transition.               *)
(***************************************************************************)
EXTENDS Integers, Sequences, FiniteSets, TLC

VARIABLES
    state,                    \* FSM state name (mooremachine fsm_state)
    cycle,                    \* number of accepted start() calls so far
    vmr_backends,             \* emitted backends: ordered key -> backend object
    vmr_discovered_backends,  \* response from VMAPI
    vmr_lastPoll,             \* "null" or "set" (an ISO timestamp)
    vmr_last_error,           \* what getLastError() returns
    intervals,                \* active setInterval timers, by owning state handle
    inflight,                 \* getBackends() calls whose callback has not run
    immediate,                \* S.immediate() of state_stopping is pending
    minted,                   \* number of keys produced by randomBytes so far
    uncaught,                 \* an exception escaped a callback
    emitted,                  \* events emitted by the last action, in order
    step,                     \* history: what the last action was
    lastFetchError,           \* history: error of the most recent failed fetch
    everSucceeded,            \* history: some fetch has completed successfully
    retired,                  \* history: every backend whose key was emitted as 'removed'
    subscribed                \* history: keys a subscriber got 'added' and not yet 'removed'

vars == << state, cycle, vmr_backends, vmr_discovered_backends, vmr_lastPoll,
           vmr_last_error, intervals, inflight, immediate, minted, uncaught, emitted, step,
           lastFetchError, everSucceeded, retired, subscribed >>

(***************************************************************************)
(* Bounds of the model.                                                    *)
(***************************************************************************)
MaxStarts == 2       \* accepted start() calls
MaxDiscovered == 2   \* length of one VMAPI response
MaxKeys == 4         \* keys minted over the life of the instance

(***************************************************************************)
(* Configuration and environment.                                          *)
(***************************************************************************)
backend_port == 5432

\* One VM with two matching NICs yields two endpoints of the same name.
Endpoints ==
    { [name |-> "db1", address |-> "10.0.0.1"],
      [name |-> "db1", address |-> "10.0.0.2"] }

FetchErrors == {"err1", "err2"}

RECURSIVE SeqsUpTo(_, _)
SeqsUpTo(S, n) ==
    IF n = 0 THEN { <<>> }
    ELSE LET shorter == SeqsUpTo(S, n - 1)
         IN  shorter \cup { Append(s, x) : s \in shorter, x \in S }

\* What listVms + the nic filter can hand to the callback on success.
Discoveries == SeqsUpTo(Endpoints, MaxDiscovered)

(***************************************************************************)
(* JavaScript objects with string keys: an ordered list of entries         *)
(* [k |-> key, v |-> value], iterated in insertion order by Object.keys.   *)
(***************************************************************************)
Keys(obj) == { obj[i].k : i \in 1..Len(obj) }

KeySeq(obj) == [i \in 1..Len(obj) |-> obj[i].k]

Get(obj, key) == obj[CHOOSE i \in 1..Len(obj) : obj[i].k = key].v

Put(obj, key, val) ==
    IF key \in Keys(obj)
    THEN [i \in 1..Len(obj) |-> IF obj[i].k = key THEN [k |-> key, v |-> val]
                                                  ELSE obj[i]]
    ELSE Append(obj, [k |-> key, v |-> val])

Range(s) == { s[i] : i \in 1..Len(s) }

MaxOf(S) == CHOOSE x \in S : \A y \in S : y <= x

(***************************************************************************)
(* diffAndEmit (lines 105-162).                                            *)
(***************************************************************************)
\* A key derived from the backend itself instead of from random bytes.
KeyFromBackend(n, be) == IF be.address = "10.0.0.1" THEN 1 ELSE 2

\* mod_crypto.randomBytes(9).toString('base64'): 72 random bits, taken to be
\* a value never produced before (the n-th call yields key n + 1).
NewKey(n, be) == n + 1

\* A match on the name alone.
MatchesByName(old, be) == { i \in 1..Len(old) : old[i].v.name = be.name }

\* Indices of the old backends that equal be in both address and name.
Matches(old, be) ==
    { i \in 1..Len(old) : old[i].v.address = be.address /\ old[i].v.name = be.name }

\* The inner forEach over Object.keys(self.vmr_backends): every match
\* overwrites be.key, so the last matching key in iteration order wins.
MatchedKey(old, be) == old[MaxOf(Matches(old, be))].k

\* The outer forEach over vmr_discovered_backends.
RECURSIVE DiscoveredLoop(_, _, _, _, _)
DiscoveredLoop(old, disc, added, new_backends, n) ==
    IF disc = <<>>
    THEN [added |-> added, new_backends |-> new_backends, minted |-> n]
    ELSE LET backend == Head(disc)
             be0 == [name |-> backend.name, address |-> backend.address,
                     port |-> backend_port]
             found == Matches(old, be0) # {}
             key == IF found THEN MatchedKey(old, be0) ELSE NewKey(n, be0)
             be == [name |-> be0.name, address |-> be0.address,
                    port |-> be0.port, key |-> key]
         IN  DiscoveredLoop(old, Tail(disc),
                            IF found THEN added ELSE Append(added, key),
                            Put(new_backends, key, be),
                            IF found THEN n ELSE n + 1)

\* No old key is ever reported as removed.
RemovedOfNothing(old, new_backends) == <<>>

\* Keys of the old backends that new_backends does not hold, in order.
RemovedOf(old, new_backends) ==
    SelectSeq(KeySeq(old), LAMBDA k : k \notin Keys(new_backends))

AddedEvents(added, new_backends) ==
    [i \in 1..Len(added) |->
        [type |-> "added", key |-> added[i], backend |-> Get(new_backends, added[i])]]

RemovedEvents(removed) ==
    [i \in 1..Len(removed) |-> [type |-> "removed", key |-> removed[i]]]

diffAndEmit(old, disc, n) ==
    LET loop == DiscoveredLoop(old, disc, <<>>, <<>>, n)
        removed == RemovedOf(old, loop.new_backends)
    IN  [added |-> loop.added,
         removed |-> removed,
         new_backends |-> loop.new_backends,
         minted |-> loop.minted,
         events |-> AddedEvents(loop.added, loop.new_backends) \o RemovedEvents(removed)]

\* A subscriber to 'added' and 'removed' (as in the README example) that
\* keeps the set of keys it was told about: events are delivered in order.
RECURSIVE Deliver(_, _)
Deliver(view, events) ==
    IF events = <<>> THEN view
    ELSE Deliver(IF Head(events).type = "added"
                 THEN view \cup {Head(events).key}
                 ELSE view \ {Head(events).key},
                 Tail(events))

\* History entry for a key emitted as 'removed' and the backend it named.
Retire(key, be) == [key |-> key, name |-> be.name, address |-> be.address]

\* The new backends merged into the old object instead of replacing it.
ApplyDiffMerging(disc) ==
    LET d == diffAndEmit(vmr_backends, disc, minted)
    IN  /\ vmr_backends' = vmr_backends \o SelectSeq(d.new_backends,
                                LAMBDA e : e.k \notin Keys(vmr_backends))
        /\ minted' = d.minted
        /\ emitted' = d.events
        /\ subscribed' = Deliver(subscribed, d.events)
        /\ retired' = retired \cup { Retire(k, Get(vmr_backends, k)) : k \in Range(d.removed) }

\* The assignments diffAndEmit makes to the resolver, with its events.
ApplyDiff(disc) ==
    LET d == diffAndEmit(vmr_backends, disc, minted)
    IN  /\ vmr_backends' = d.new_backends
        /\ minted' = d.minted
        /\ emitted' = d.events
        /\ subscribed' = Deliver(subscribed, d.events)
        /\ retired' = retired \cup { Retire(k, Get(vmr_backends, k)) : k \in Range(d.removed) }

NoDiff ==
    /\ UNCHANGED << vmr_backends, minted, retired, subscribed >>
    /\ emitted' = <<>>

(***************************************************************************)
(* State handles, timers and outstanding fetches.                          *)
(*                                                                         *)
(* Each entry into a state creates a handle S.  Within one start() cycle   *)
(* every state is entered at most once, so a handle is named by the state  *)
(* and the cycle.  A handle is valid until its gotoState() is used; the    *)
(* handle of any state other than the current one has been used.           *)
(***************************************************************************)
Handle(origin, c) == [origin |-> origin, cycle |-> c]

Valid(h) == h.origin = state /\ h.cycle = cycle

RemoveAt(s, i) == [j \in 1..(Len(s) - 1) |-> IF j < i THEN s[j] ELSE s[j + 1]]

Step(op, origin, valid) == [op |-> op, origin |-> origin, valid |-> valid]

Init ==
    /\ state = "stopped"              \* FSM.call(this, 'stopped')
    /\ cycle = 0
    /\ vmr_backends = <<>>
    /\ vmr_discovered_backends = <<>>
    /\ vmr_lastPoll = "null"
    /\ vmr_last_error = "undefined"   \* the constructor never sets the field
    /\ intervals = {}
    /\ inflight = <<>>
    /\ immediate = FALSE
    /\ minted = 0
    /\ uncaught = FALSE
    /\ emitted = <<>>
    /\ step = Step("new", "none", TRUE)
    /\ lastFetchError = "none"
    /\ everSucceeded = FALSE
    /\ retired = {}
    /\ subscribed = {}

(***************************************************************************)
(* start() and stop() (lines 264-273) with the handlers they trigger.      *)
(***************************************************************************)
\* start() accepted while another start is still in 'starting'.
StartAllowedWhileStarting(s) == s \in {"stopped", "starting"}

\* mod_assert.ok(this.isInState('stopped'))
StartAllowed(s) == s = "stopped"

\* stop() accepted in every state but 'stopped'.
StopAllowedUnlessStopped(s) == s # "stopped"

\* mod_assert.ok(this.isInState('running') || this.isInState('failed'))
StopAllowed(s) == s \in {"running", "failed"}

\* clearInterval() left out of a handler.
ClearIntervalForgotten(timers, h) == timers

\* clearInterval(interval)
ClearInterval(timers, h) == timers \ {h}

\* start() in 'stopped': state_stopped's handler enters 'starting', whose
\* entry function issues the first getBackends().
Start ==
    /\ ~uncaught
    /\ StartAllowed(state)
    /\ cycle < MaxStarts
    /\ state' = "starting"
    /\ cycle' = cycle + 1
    /\ inflight' = Append(inflight, Handle("starting", cycle + 1))
    /\ step' = Step("start", state, TRUE)
    /\ NoDiff
    /\ UNCHANGED << vmr_discovered_backends, vmr_lastPoll, vmr_last_error, intervals,
                    immediate, uncaught, lastFetchError, everSucceeded >>

\* start() in any other state: the assertion throws to the caller.
StartRejected ==
    /\ ~uncaught
    /\ ~StartAllowed(state)
    /\ step' = Step("startRejected", state, TRUE)
    /\ NoDiff
    /\ UNCHANGED << state, cycle, vmr_discovered_backends, vmr_lastPoll, vmr_last_error,
                    intervals, inflight, immediate, uncaught, lastFetchError,
                    everSucceeded >>

\* state_stopping's entry function (lines 245-262).
StoppingEvents(backends) ==
    [i \in 1..Len(backends) |-> [type |-> "removed", key |-> backends[i].v.key]]

\* stop() in 'running' or 'failed': the state's stopAsserted handler clears
\* its interval and enters 'stopping'.
Stop ==
    /\ ~uncaught
    /\ StopAllowed(state)
    /\ intervals' = ClearInterval(intervals, Handle(state, cycle))
    /\ state' = "stopping"
    /\ emitted' = StoppingEvents(vmr_backends)
    /\ subscribed' = Deliver(subscribed, StoppingEvents(vmr_backends))
    /\ retired' = retired \cup { Retire(vmr_backends[i].v.key, vmr_backends[i].v) :
                                    i \in 1..Len(vmr_backends) }
    /\ vmr_backends' = <<>>
    /\ immediate' = TRUE
    /\ step' = Step("stop", state, TRUE)
    /\ UNCHANGED << cycle, vmr_discovered_backends, vmr_lastPoll, vmr_last_error,
                    inflight, minted, uncaught,
                    lastFetchError, everSucceeded >>

\* stop() in any other state: the assertion throws to the caller.
StopRejected ==
    /\ ~uncaught
    /\ ~StopAllowed(state)
    /\ step' = Step("stopRejected", state, TRUE)
    /\ NoDiff
    /\ UNCHANGED << state, cycle, vmr_discovered_backends, vmr_lastPoll, vmr_last_error,
                    intervals, inflight, immediate, uncaught, lastFetchError,
                    everSucceeded >>

\* The S.immediate() callback of state_stopping (lines 259-261).
StoppingImmediate ==
    /\ ~uncaught
    /\ immediate
    /\ immediate' = FALSE
    /\ state' = IF state = "stopping" THEN "stopped" ELSE state
    /\ step' = Step("immediate", "stopping", state = "stopping")
    /\ NoDiff
    /\ UNCHANGED << cycle, vmr_discovered_backends, vmr_lastPoll, vmr_last_error,
                    intervals, inflight, uncaught, lastFetchError, everSucceeded >>

(***************************************************************************)
(* The setInterval callback of state_running and state_failed              *)
(* (lines 192-199 and 218-225).                                            *)
(***************************************************************************)
\* A tick that never sees the previous poll as outstanding.
LastPollIgnored(lastPoll) == FALSE

\* if (self.vmr_lastPoll) { return; }
LastPollStillRunning(lastPoll) == lastPoll # "null"

TickSkipped(h) ==
    /\ ~uncaught
    /\ h \in intervals
    /\ LastPollStillRunning(vmr_lastPoll)
    /\ step' = Step("tickSkipped", h.origin, Valid(h))
    /\ NoDiff
    /\ UNCHANGED << state, cycle, vmr_discovered_backends, vmr_lastPoll, vmr_last_error,
                    intervals, inflight, immediate, uncaught, lastFetchError,
                    everSucceeded >>

TickPoll(h) ==
    /\ ~uncaught
    /\ h \in intervals
    /\ ~LastPollStillRunning(vmr_lastPoll)
    /\ vmr_lastPoll' = "set"
    /\ inflight' = Append(inflight, h)
    /\ step' = Step("tick", h.origin, Valid(h))
    /\ NoDiff
    /\ UNCHANGED << state, cycle, vmr_discovered_backends, vmr_last_error, intervals,
                    immediate, uncaught, lastFetchError, everSucceeded >>

(***************************************************************************)
(* getBackends() completions.  inflight[i] names the state handle whose    *)
(* closure receives the callback; the callbacks are not wrapped by         *)
(* S.callback(), so they run whatever the current state is.                *)
(***************************************************************************)
\* state_running's entry function (lines 188-213), on a discovery result
\* that the caller has just stored.
EnterRunning(disc, timers) ==
    /\ state' = "running"
    /\ ApplyDiff(disc)
    /\ intervals' = timers \cup {Handle("running", cycle)}

\* gotoState() on a handle that was already used throws.
StaleGotoState ==
    /\ uncaught' = TRUE
    /\ NoDiff
    /\ UNCHANGED state

\* The callback of state_starting (lines 177-185), error branch: emits
\* failAsserted, which only a live 'starting' handle listens to.
StartingFetchError(i, err) ==
    LET f == inflight[i] IN
    /\ ~uncaught
    /\ f.origin = "starting"
    /\ inflight' = RemoveAt(inflight, i)
    /\ IF Valid(f)
       THEN /\ state' = "failed"
            /\ intervals' = intervals \cup {Handle("failed", cycle)}
       ELSE UNCHANGED << state, intervals >>
    /\ lastFetchError' = err
    /\ step' = Step("fetchErr", "starting", Valid(f))
    /\ NoDiff
    /\ UNCHANGED << cycle, vmr_discovered_backends, vmr_lastPoll, vmr_last_error,
                    immediate, uncaught, everSucceeded >>

\* The callback of state_starting, success branch.
StartingFetchOk(i, backends) ==
    LET f == inflight[i] IN
    /\ ~uncaught
    /\ f.origin = "starting"
    /\ minted + Len(backends) <= MaxKeys
    /\ inflight' = RemoveAt(inflight, i)
    /\ vmr_discovered_backends' = backends
    /\ IF Valid(f)
       THEN EnterRunning(backends, intervals) /\ UNCHANGED uncaught
       ELSE StaleGotoState /\ UNCHANGED intervals
    /\ everSucceeded' = TRUE
    /\ step' = Step("fetchOk", "starting", Valid(f))
    /\ UNCHANGED << cycle, vmr_lastPoll, vmr_last_error, immediate, lastFetchError >>

\* A poll error taken for an empty response: every backend is retracted.
RunningPollErrorRetracts == ApplyDiff(<<>>)

\* What the error branch of state_running's poll callback does to the
\* backends (lines 200-204): nothing.
RunningPollError == NoDiff

\* The poll callback of state_running (lines 198-207), error branch.
RunningFetchError(i, err) ==
    LET f == inflight[i] IN
    /\ ~uncaught
    /\ f.origin = "running"
    /\ inflight' = RemoveAt(inflight, i)
    /\ vmr_lastPoll' = "null"
    /\ RunningPollError
    /\ lastFetchError' = err
    /\ step' = Step("fetchErr", "running", Valid(f))
    /\ UNCHANGED << state, cycle, vmr_discovered_backends, vmr_last_error, intervals,
                    immediate, uncaught, everSucceeded >>

\* The poll callback of state_running, success branch.
RunningFetchOk(i, backends) ==
    LET f == inflight[i] IN
    /\ ~uncaught
    /\ f.origin = "running"
    /\ minted + Len(backends) <= MaxKeys
    /\ inflight' = RemoveAt(inflight, i)
    /\ vmr_lastPoll' = "null"
    /\ vmr_discovered_backends' = backends
    /\ ApplyDiff(backends)
    /\ everSucceeded' = TRUE
    /\ step' = Step("fetchOk", "running", Valid(f))
    /\ UNCHANGED << state, cycle, vmr_last_error, intervals, immediate, uncaught,
                    lastFetchError >>

\* The poll callback of state_failed (lines 224-236), error branch.
FailedFetchError(i, err) ==
    LET f == inflight[i] IN
    /\ ~uncaught
    /\ f.origin = "failed"
    /\ inflight' = RemoveAt(inflight, i)
    /\ vmr_lastPoll' = "null"
    /\ lastFetchError' = err
    /\ step' = Step("fetchErr", "failed", Valid(f))
    /\ NoDiff
    /\ UNCHANGED << state, cycle, vmr_discovered_backends, vmr_last_error, intervals,
                    immediate, uncaught, everSucceeded >>

\* The poll callback of state_failed, success branch: clears the interval of
\* its own closure, stores the result and asks its handle for 'running'.
FailedFetchOk(i, backends) ==
    LET f == inflight[i] IN
    /\ ~uncaught
    /\ f.origin = "failed"
    /\ minted + Len(backends) <= MaxKeys
    /\ inflight' = RemoveAt(inflight, i)
    /\ vmr_lastPoll' = "null"
    /\ vmr_discovered_backends' = backends
    /\ IF Valid(f)
       THEN EnterRunning(backends, ClearInterval(intervals, f)) /\ UNCHANGED uncaught
       ELSE StaleGotoState /\ intervals' = ClearInterval(intervals, f)
    /\ everSucceeded' = TRUE
    /\ step' = Step("fetchOk", "failed", Valid(f))
    /\ UNCHANGED << cycle, vmr_last_error, immediate, lastFetchError >>

Handles == { Handle(o, c) : o \in {"running", "failed"}, c \in 1..MaxStarts }

Next ==
    \/ Start
    \/ StartRejected
    \/ Stop
    \/ StopRejected
    \/ StoppingImmediate
    \/ \E h \in Handles : TickSkipped(h)
    \/ \E h \in Handles : TickPoll(h)
    \/ \E i \in 1..Len(inflight), err \in FetchErrors : StartingFetchError(i, err)
    \/ \E i \in 1..Len(inflight), d \in Discoveries : StartingFetchOk(i, d)
    \/ \E i \in 1..Len(inflight), err \in FetchErrors : RunningFetchError(i, err)
    \/ \E i \in 1..Len(inflight), d \in Discoveries : RunningFetchOk(i, d)
    \/ \E i \in 1..Len(inflight), err \in FetchErrors : FailedFetchError(i, err)
    \/ \E i \in 1..Len(inflight), d \in Discoveries : FailedFetchOk(i, d)

Spec == Init /\ [][Next]_vars

(***************************************************************************)
(* Vocabulary of the properties.                                           *)
(***************************************************************************)
\* The public view of the resolver: list(), the events of the step and the
\* FSM state.
RetiredKeys == { b.key : b \in retired }

TickFetches(fetches) ==
    { i \in 1..Len(fetches) : fetches[i].origin \in {"running", "failed"} }

\* The last action ran diffAndEmit on vmr_discovered_backends.
Reconciled ==
    /\ step.op = "fetchOk"
    /\ ~uncaught
    /\ step.origin = "running" \/ step.valid

EventsOfType(events, type) == SelectSeq(events, LAMBDA e : e.type = type)

EventKeys(events) == [i \in 1..Len(events) |-> events[i].key]

\* s lists every element of S exactly once.
ExactlyOnce(s, S) ==
    /\ Range(s) = S
    /\ Len(s) = Cardinality(S)

(***************************************************************************)
(* C1: a fetch issued by a poll tick of 'running' before stop() that       *)
(* completes successfully after stop() leaves the Backend Set unchanged    *)
(* and emits no event.                                                     *)
(***************************************************************************)
C1_LateRunningFetch ==
    /\ step'.op = "fetchOk"
    /\ step'.origin = "running"
    /\ ~step'.valid

C1_StaleFetchDiscarded ==
    [][ C1_LateRunningFetch => (vmr_backends' = vmr_backends /\ emitted' = <<>>) ]_vars

(***************************************************************************)
(* C2: the Backend Set is empty whenever the state is 'stopped' or no      *)
(* fetch has completed successfully yet, and whenever 'starting' is        *)
(* entered.                                                                *)
(***************************************************************************)
C2_EmptyWhenStoppedOrUnfetched ==
    /\ (state = "stopped" \/ ~everSucceeded) => vmr_backends = <<>>
    /\ step.op = "start" => vmr_backends = <<>>

(***************************************************************************)
(* C3: stop() accepted in 'running' emits exactly one 'removed' per key of *)
(* the Backend Set and nothing else, and the Backend Set is empty when     *)
(* the resolver then enters 'stopped'.                                     *)
(***************************************************************************)
C3_StopRetractsAll ==
    [][ /\ (step'.op = "stop" /\ state = "running") =>
              /\ EventsOfType(emitted', "added") = <<>>
              /\ ExactlyOnce(EventKeys(emitted'), Keys(vmr_backends))
        /\ (step'.op = "immediate" /\ state' = "stopped") => vmr_backends' = <<>>
      ]_vars

(***************************************************************************)
(* C4: a poll fetch of 'running' that fails while the resolver is          *)
(* 'running' changes neither the Backend Set nor the state and emits no    *)
(* event.                                                                  *)
(***************************************************************************)
C4_PollErrorTolerated ==
    [][ (step'.op = "fetchErr" /\ step'.origin = "running" /\ state = "running") =>
            /\ vmr_backends' = vmr_backends
            /\ emitted' = <<>>
            /\ state' = "running"
      ]_vars

C4_Witness ==
    /\ step.op = "fetchErr"
    /\ step.origin = "running"
    /\ state = "running"
    /\ vmr_backends # <<>>

(***************************************************************************)
(* C5: once a fetch has failed, lastError() returns the error of the most  *)
(* recent failed fetch.                                                    *)
(***************************************************************************)
getLastError == vmr_last_error

C5_LastErrorReflectsFetchError ==
    lastFetchError # "none" => getLastError = lastFetchError

(***************************************************************************)
(* C6: a tick that fires while a tick-issued fetch is outstanding issues   *)
(* no fetch and changes nothing; at most one tick-issued fetch is          *)
(* outstanding at any time.                                                *)
(***************************************************************************)
C6_OverlappingTickSkipped ==
    [][ /\ Cardinality(TickFetches(inflight')) <= 1
        /\ (step'.op \in {"tick", "tickSkipped"} /\ TickFetches(inflight) # {}) =>
              /\ step'.op = "tickSkipped"
              /\ UNCHANGED << state, cycle, vmr_backends, vmr_discovered_backends,
                              vmr_lastPoll, vmr_last_error, intervals, inflight,
                              immediate, minted, uncaught >>
              /\ emitted' = <<>>
      ]_vars

\* A tick skipped because of a fetch that an earlier start() cycle issued.
C6_Witness ==
    /\ step.op = "tickSkipped"
    /\ \E i \in TickFetches(inflight) : inflight[i].cycle < cycle

(***************************************************************************)
(* C7: when the fetch of 'starting' fails the state becomes 'failed'; a     *)
(* fetch of 'failed' that succeeds while the resolver is still in that     *)
(* 'failed' state moves it to 'running' and emits exactly one 'added' per  *)
(* endpoint of its result and no 'removed'.                                *)
(***************************************************************************)
C7_RecoveryAddsEverything ==
    [][ /\ (step'.op = "fetchErr" /\ step'.origin = "starting") => state' = "failed"
        /\ (step'.op = "fetchOk" /\ step'.origin = "failed" /\ step'.valid) =>
              /\ state' = "running"
              /\ Len(emitted') = Len(vmr_discovered_backends')
              /\ \A i \in 1..Len(emitted') :
                    /\ emitted'[i].type = "added"
                    /\ emitted'[i].backend.name = vmr_discovered_backends'[i].name
                    /\ emitted'[i].backend.address = vmr_discovered_backends'[i].address
      ]_vars

(***************************************************************************)
(* C8: reconciling the same discovery result a second time emits no event  *)
(* and leaves the Backend Set unchanged.                                   *)
(***************************************************************************)
C8_ReconcileIdempotent ==
    Reconciled =>
        LET again == diffAndEmit(vmr_backends, vmr_discovered_backends, minted)
        IN  /\ again.events = <<>>
            /\ again.new_backends = vmr_backends

(***************************************************************************)
(* C9: a reconciliation keeps the key of every backend whose (name,        *)
(* address) pair is still in the discovery result, and emits no event      *)
(* with that key.                                                          *)
(***************************************************************************)
SamePair(a, b) == a.name = b.name /\ a.address = b.address

C9_KeyStable ==
    [][ Reconciled' =>
          \A i \in 1..Len(vmr_backends) :
              (\E j \in 1..Len(vmr_discovered_backends') :
                    SamePair(vmr_discovered_backends'[j], vmr_backends[i].v))
              => /\ \E j \in 1..Len(vmr_backends') :
                       /\ vmr_backends'[j].k = vmr_backends[i].k
                       /\ SamePair(vmr_backends'[j].v, vmr_backends[i].v)
                 /\ \A j \in 1..Len(emitted') : emitted'[j].key # vmr_backends[i].k
      ]_vars

(***************************************************************************)
(* C10: a key emitted as 'removed' never again appears in the Backend Set  *)
(* or in an 'added' event; every 'added' key was never used before.        *)
(***************************************************************************)
C10_KeysNeverReused ==
    [][ /\ Keys(vmr_backends') \cap RetiredKeys' = {}
        /\ \A i \in 1..Len(emitted') :
              emitted'[i].type = "added" =>
                  emitted'[i].key \notin (RetiredKeys \cup Keys(vmr_backends))
      ]_vars

\* A pair that was removed is advertised again, under another key.
C10_Witness ==
    \E b \in retired : \E i \in 1..Len(vmr_backends) :
        /\ SamePair(vmr_backends[i].v, b)
        /\ vmr_backends[i].k # b.key
        /\ \E j \in 1..Len(emitted) : emitted[j].type = "added" /\ emitted[j].key = vmr_backends[i].k

(***************************************************************************)
(* C11: each (name, address) pair appears under at most one key of the     *)
(* Backend Set, also when one discovery result holds the pair twice.       *)
(***************************************************************************)
C11_OneKeyPerPair ==
    \A i, j \in 1..Len(vmr_backends) :
        SamePair(vmr_backends[i].v, vmr_backends[j].v) => i = j

(***************************************************************************)
(* C12: after a reconciliation the Backend Set matches the discovery       *)
(* result: every backend has a pair of the result, the configured port     *)
(* and its own key in 'key', and every pair of the result is in the set.   *)
(***************************************************************************)
PairsOf(disc) == { [name |-> disc[i].name, address |-> disc[i].address] : i \in 1..Len(disc) }

BackendPairs(obj) == { [name |-> obj[i].v.name, address |-> obj[i].v.address] : i \in 1..Len(obj) }

C12_SetMatchesDiscovery ==
    Reconciled =>
        /\ \A i \in 1..Len(vmr_backends) :
              /\ vmr_backends[i].v.port = 5432
              /\ vmr_backends[i].v.key = vmr_backends[i].k
        /\ BackendPairs(vmr_backends) = PairsOf(vmr_discovered_backends)
        /\ \A i, j \in 1..Len(vmr_backends) :
              vmr_backends[i].k = vmr_backends[j].k => i = j

\* A reconciliation that both dropped a backend and kept another.
C12_Witness ==
    /\ Reconciled
    /\ vmr_backends # <<>>
    /\ \E j \in 1..Len(emitted) : emitted[j].type = "removed"

(***************************************************************************)
(* C13: for consecutive successful poll cycles of 'running' with           *)
(* duplicate-free results P then D, the second reconciliation emits        *)
(* exactly one 'added' per pair of D not in P, exactly one 'removed' for   *)
(* the key of each pair of P not in D, and nothing else.                   *)
(***************************************************************************)
NoDuplicates(disc) == \A i, j \in 1..Len(disc) : disc[i] = disc[j] => i = j

AddedPairs(events) ==
    LET a == EventsOfType(events, "added")
    IN  [i \in 1..Len(a) |-> [name |-> a[i].backend.name, address |-> a[i].backend.address]]

C13_SecondPoll ==
    /\ state = "running"
    /\ step'.op = "fetchOk"
    /\ step'.origin = "running"
    /\ NoDuplicates(vmr_discovered_backends)
    /\ NoDuplicates(vmr_discovered_backends')

C13_DiffOfConsecutivePolls ==
    [][ C13_SecondPoll =>
          LET P == PairsOf(vmr_discovered_backends)
              D == PairsOf(vmr_discovered_backends')
              gone == { i \in 1..Len(vmr_backends) :
                           [name |-> vmr_backends[i].v.name,
                            address |-> vmr_backends[i].v.address] \in P \ D }
          IN  /\ ExactlyOnce(AddedPairs(emitted'), D \ P)
              /\ ExactlyOnce(EventKeys(EventsOfType(emitted', "removed")),
                             { vmr_backends[i].k : i \in gone })
              /\ Cardinality(gone) = Cardinality(P \ D)
              /\ \A i \in 1..Len(emitted') : emitted'[i].type \in {"added", "removed"}
      ]_vars

\* A poll of 'running' that added one pair and removed another.
C13_Witness ==
    /\ state = "running"
    /\ step.op = "fetchOk"
    /\ step.origin = "running"
    /\ \E i, j \in 1..Len(emitted) : emitted[i].type = "added" /\ emitted[j].type = "removed"
    /\ Len(emitted) = 2

(***************************************************************************)
(* C14: start() is accepted only in 'stopped' and stop() only in 'running' *)
(* or 'failed'; a call in any other state fails synchronously and changes  *)
(* neither the state, the Backend Set nor the timers, and emits nothing.   *)
(***************************************************************************)
C14_CallLeavesAllUnchanged ==
    /\ UNCHANGED << state, cycle, vmr_backends, vmr_discovered_backends, vmr_lastPoll,
                    vmr_last_error, intervals, inflight, immediate, minted, uncaught,
                    subscribed >>
    /\ emitted' = <<>>

C14_InvalidCallsRejected ==
    [][ /\ step'.op = "start" => state = "stopped"
        /\ step'.op = "stop" => state \in {"running", "failed"}
        /\ step'.op \in {"startRejected", "stopRejected"} => C14_CallLeavesAllUnchanged
        /\ step'.op = "startRejected" => state \in {"starting", "running", "failed", "stopping"}
        /\ step'.op = "stopRejected" => state \in {"stopped", "starting", "stopping"}
      ]_vars

\* stop() refused while the first fetch of 'starting' is outstanding.
C14_Witness ==
    /\ step.op = "stopRejected"
    /\ state = "starting"
    /\ inflight # <<>>

(***************************************************************************)
(* C15: count() returns the number of keys of the Backend Set.             *)
(***************************************************************************)
\* this.vmr_backends.length: vmr_backends is a plain object, which has no
\* length property, and no key is the string "length" (keys are 12 base64
\* characters), so the lookup yields undefined.
count == [defined |-> FALSE, value |-> 0]

list == vmr_backends

C15_CountIsSetSize ==
    /\ count.defined
    /\ count.value = Cardinality(Keys(list))

(***************************************************************************)
(* C16: a poll timer is active exactly in 'running' and 'failed', never    *)
(* more than one, and no tick fires in any other state.                    *)
(***************************************************************************)
C16_TimerOnlyWhilePolling ==
    /\ Cardinality(intervals) <= 1
    /\ intervals # {} <=> state \in {"running", "failed"}
    /\ \A h \in intervals : h.origin = state /\ h.cycle = cycle
    /\ step.op \in {"tick", "tickSkipped"} =>
          /\ state \in {"running", "failed"}
          /\ step.origin = state
          /\ step.valid

\* 'running' of the second start() cycle, reached through 'failed'.
C16_Witness ==
    /\ state = "running"
    /\ cycle = 2
    /\ step.op = "fetchOk"
    /\ step.origin = "failed"
    /\ intervals = {[origin |-> "running", cycle |-> 2]}

(***************************************************************************)
(* C17: 'failed' heals itself.  Under LiveSpec an active interval keeps    *)
(* firing (setInterval), every outstanding getBackends() calls back (the   *)
(* VMAPI client gives up after its retries), and polls of 'failed' that    *)
(* are issued again and again eventually succeed.  Then a resolver in      *)
(* 'failed' reaches 'running', unless stop() takes it to 'stopping'.       *)
(***************************************************************************)
FetchCompletes ==
    \/ \E i \in 1..Len(inflight), err \in FetchErrors : StartingFetchError(i, err)
    \/ \E i \in 1..Len(inflight), d \in Discoveries : StartingFetchOk(i, d)
    \/ \E i \in 1..Len(inflight), err \in FetchErrors : RunningFetchError(i, err)
    \/ \E i \in 1..Len(inflight), d \in Discoveries : RunningFetchOk(i, d)
    \/ \E i \in 1..Len(inflight), err \in FetchErrors : FailedFetchError(i, err)
    \/ \E i \in 1..Len(inflight), d \in Discoveries : FailedFetchOk(i, d)

LiveSpec ==
    /\ Init
    /\ [][Next]_vars
    /\ WF_vars(\E h \in Handles : TickPoll(h))
    /\ WF_vars(FetchCompletes)
    /\ SF_vars(\E i \in 1..Len(inflight), d \in Discoveries : FailedFetchOk(i, d))

C17_FailedSelfHeals ==
    (state = "failed") ~> (state \in {"running", "stopping"})

(***************************************************************************)
(* C18: after every step the keys for which a subscriber has received      *)
(* 'added' and no later 'removed' are the keys of list(); no 'added' is    *)
(* emitted for a key it holds and no 'removed' for a key it does not.      *)
(***************************************************************************)
RECURSIVE WellFormedDelivery(_, _)
WellFormedDelivery(view, events) ==
    \/ events = <<>>
    \/ /\ Head(events).type = "added" => Head(events).key \notin view
       /\ Head(events).type = "removed" => Head(events).key \in view
       /\ WellFormedDelivery(Deliver(view, <<Head(events)>>), Tail(events))

C18_SubscriberViewConsistent ==
    [][ /\ subscribed' = Keys(list')
        /\ WellFormedDelivery(subscribed, emitted')
      ]_vars

\* stop() retracting two advertised backends.
C18_Witness ==
    /\ step.op = "stop"
    /\ Len(emitted) = 2
    /\ subscribed = {}

(***************************************************************************)
(* C19: a fetch callback asks for a state transition only while the        *)
(* resolver is still in the state that issued the fetch; no gotoState() is *)
(* ever requested through the handle of a state already left.              *)
(***************************************************************************)
C19_NoTransitionFromExitedState ==
    /\ (step.op = "fetchOk" /\ step.origin \in {"starting", "failed"}) => step.valid
    /\ ~uncaught

(***************************************************************************)
(* C20: at most one getBackends() call is outstanding, counting the fetch  *)
(* of 'starting' and the tick-issued fetches together.                     *)
(***************************************************************************)
StartingFetches(fetches) == { i \in 1..Len(fetches) : fetches[i].origin = "starting" }

C20_AtMostOneFetch == Len(inflight) <= 1

\* As amended: at most one tick-issued fetch and at most one fetch of
\* 'starting' are outstanding; both are only when start() followed a stop()
\* that left a tick-issued fetch of an earlier cycle outstanding.
C20_AtMostOneFetchPerKind ==
    /\ Cardinality(TickFetches(inflight)) <= 1
    /\ Cardinality(StartingFetches(inflight)) <= 1
    /\ Len(inflight) = 2 =>
          /\ state = "starting"
          /\ \A i \in StartingFetches(inflight) : inflight[i].cycle = cycle
          /\ \A i \in TickFetches(inflight) : inflight[i].cycle < cycle

C20_Witness ==
    /\ Len(inflight) = 2
    /\ step.op = "start"

====
